---- MODULE Spec2Model ----
(***************************************************************************)
(* Register-level model of the TPA2016 driver (adafruit_tpa2016.py).       *)
(*                                                                         *)
(* The state is the amplifier's seven 8-bit registers, as seen through the *)
(* I2C device the driver owns, plus a record of the last property access   *)
(* the caller made: which property, the value passed, whether the setter   *)
(* raised ValueError, the value a getter returned, the bus transactions    *)
(* the access issued and the register contents before it.                  *)
(*                                                                         *)
(* Units.  fixed_gain and max_gain are integers (dB).  An                  *)
(* output_limiter_level is counted in steps of 0.5/StepsPerHalfDb dB, so   *)
(* that q stands for the Python float q / (2 * StepsPerHalfDb).  The times *)
(* are counted in 0.0001 ms.                                               *)
(*                                                                         *)
(* A run starts from a device whose registers hold what earlier accesses   *)
(* and the chip left there, and makes up to MaxCalls property accesses.    *)
(***************************************************************************)
EXTENDS Integers, Sequences, FiniteSets

VARIABLES regs, last, calls

vars == <<regs, last, calls>>

(* -------- bounds of the model -------- *)

\* how far beyond a documented range the values passed to a setter go
Margin == 2
\* how many values a caller can pass per 0.5 dB of output limiter level
StepsPerHalfDb == 5
\* how many property accesses one run makes
MaxCalls == 1

(* -------- integers as bit patterns -------- *)

\* 1 << n, for the shifts of one byte
Pow2(n) == <<1, 2, 4, 8, 16, 32, 64, 128, 256>>[n + 1]

\* the low 8 bits of a Python int (x & 0xFF), two's complement for x < 0
Low8(x) == x % 256

RECURSIVE BitOr(_, _)
\* x | y, for x, y >= 0
BitOr(x, y) ==
    IF x = 0 THEN y
    ELSE IF y = 0 THEN x
    ELSE (IF x % 2 = 1 \/ y % 2 = 1 THEN 1 ELSE 0) + 2 * BitOr(x \div 2, y \div 2)

RECURSIVE BitAnd(_, _)
\* x & y, for x, y >= 0
BitAnd(x, y) ==
    IF x = 0 \/ y = 0 THEN 0
    ELSE (IF x % 2 = 1 /\ y % 2 = 1 THEN 1 ELSE 0) + 2 * BitAnd(x \div 2, y \div 2)

\* ~x within one byte (the bytes it is and-ed with have no higher bits)
Not8(x) == 255 - x

(* -------- the register file and the bus -------- *)

Registers == 1 .. 7
Byte == 0 .. 255

\* a device: the chip's registers and the transactions issued on the bus
Device(r) == [regs |-> r, bus |-> << >>]

\* i2c.write_then_readinto(buffer, buffer, out_end=1, in_start=1): one byte read
BusRead(dev, addr) ==
    [dev EXCEPT !.bus = Append(@, <<"read", addr, dev.regs[addr]>>)]

\* i2c.write(buffer): one byte written
BusWrite(dev, addr, byte) ==
    [regs |-> [dev.regs EXCEPT ![addr] = byte],
     bus  |-> Append(dev.bus, <<"write", addr, byte>>)]

(* -------- the bit-field accessors (adafruit_register) -------- *)

RWBits(num_bits, register_address, lowest_bit) ==
    [num_bits |-> num_bits, register_address |-> register_address,
     lowest_bit |-> lowest_bit,
     bit_mask |-> (Pow2(num_bits) - 1) * Pow2(lowest_bit)]

RWBit(register_address, bit) ==
    [num_bits |-> 1, register_address |-> register_address,
     lowest_bit |-> bit, bit_mask |-> Pow2(bit)]

\* (reg & bit_mask) >> lowest_bit
FieldOf(d, byte) == BitAnd(byte, d.bit_mask) \div Pow2(d.lowest_bit)

\* The byte a field write puts on the bus.  What happens to a value that does
\* not fit the field (negative, or wider than num_bits) is not defined by the
\* accessor, and the releases of the register library differ:
\*   keeping:  value = (value << lowest_bit) | ~bit_mask
\*             reg |= bit_mask; reg &= value
\*             (the bits of the byte outside the field are kept)
\*   spilling: reg &= ~bit_mask; reg |= value << lowest_bit; byte = reg & 0xFF
\*             (the bits of the value above the field are or-ed into the byte)
\* The two agree on every value in 0 .. 2^num_bits - 1.
FieldWriteKeeping(d, byte, value) ==
    BitAnd(BitOr(byte, d.bit_mask),
           BitOr(Low8(value * Pow2(d.lowest_bit)), Not8(d.bit_mask)))

FieldWriteSpilling(d, byte, value) ==
    BitOr(BitAnd(byte, Not8(d.bit_mask)), Low8(value * Pow2(d.lowest_bit)))

\* the bytes a field write can put on the bus
FieldWrite(d, byte, value) ==
    {FieldWriteKeeping(d, byte, value), FieldWriteSpilling(d, byte, value)}

\* RWBits.__get__ : one read; the value returned
RWBits_get_value(d, dev) == FieldOf(d, dev.regs[d.register_address])
RWBits_get(d, dev) == BusRead(dev, d.register_address)

\* RWBits.__set__ : one read, then one write of the modified byte; the devices
\* it can leave
RWBits_set(d, dev, value) ==
    LET a == d.register_address
    IN  {BusWrite(BusRead(dev, a), a, byte) : byte \in FieldWrite(d, dev.regs[a], value)}

\* RWBit.__get__ : bool(byte & bit_mask)
RWBit_get_value(d, dev) == BitAnd(dev.regs[d.register_address], d.bit_mask) # 0

\* RWBit.__set__ : byte |= bit_mask if value else byte &= ~bit_mask
RWBit_set(d, dev, value) ==
    LET a == d.register_address
        byte == dev.regs[a]
    IN  BusWrite(BusRead(dev, a), a,
                 IF value THEN BitOr(byte, d.bit_mask)
                 ELSE BitAnd(byte, Not8(d.bit_mask)))

(* -------- class TPA2016: the descriptors -------- *)

_attack_control       == RWBits(6, 2, 0)
_release_control      == RWBits(6, 3, 0)
_hold_time_control    == RWBits(6, 4, 0)
_fixed_gain_control   == RWBits(6, 5, 0)
_output_limiter_level == RWBits(5, 5, 0)
_max_gain             == RWBits(4, 7, 4)

noisegate_threshold == RWBits(2, 6, 5)

\* a slip: the field placed at the offset of _max_gain
compression_ratio_at_bit_4 == RWBits(2, 7, 4)
compression_ratio == RWBits(2, 7, 0)

\* a slip: noisegate_enable placed in register 0x06
BitProperties_noisegate_in_6 ==
    [speaker_enable_r       |-> RWBit(1, 7),
     speaker_enable_l       |-> RWBit(1, 6),
     amplifier_shutdown     |-> RWBit(1, 5),
     reset_fault_r          |-> RWBit(1, 4),
     reset_Fault_l          |-> RWBit(1, 3),
     reset_thermal          |-> RWBit(1, 2),
     noisegate_enable       |-> RWBit(6, 0),
     output_limiter_disable |-> RWBit(6, 7)]

\* the single-bit properties, by name
BitProperties ==
    [speaker_enable_r       |-> RWBit(1, 7),
     speaker_enable_l       |-> RWBit(1, 6),
     amplifier_shutdown     |-> RWBit(1, 5),
     reset_fault_r          |-> RWBit(1, 4),
     reset_Fault_l          |-> RWBit(1, 3),
     reset_thermal          |-> RWBit(1, 2),
     noisegate_enable       |-> RWBit(1, 0),
     output_limiter_disable |-> RWBit(6, 7)]

\* the public two-bit properties, by name
EnumProperties ==
    [noisegate_threshold |-> noisegate_threshold,
     compression_ratio   |-> compression_ratio]

\* the millisecond properties: their field and their scale (in 0.0001 ms)
TimeProperties ==
    [attack_time  |-> [field |-> _attack_control,    scale |-> 1067],
     release_time |-> [field |-> _release_control,   scale |-> 137],
     hold_time    |-> [field |-> _hold_time_control, scale |-> 137]]

(* -------- class TPA2016: the properties -------- *)

\* what a setter hands back: the device after it, and whether it raised
Returned(dev) == [dev |-> dev, raised |-> FALSE]
ValueError(dev) == [dev |-> dev, raised |-> TRUE]

\* int(n / d): Python's truncation toward zero of the quotient n / d, d > 0
PyInt(n, d) == IF n >= 0 THEN n \div d ELSE -((-n) \div d)

\* round(n / d): Python's rounding of the quotient n / d to the nearest
\* integer, a tie going to the even one; n >= 0, d > 0
PyRound(n, d) ==
    LET f == n \div d
        twice == 2 * (n % d)
    IN  IF twice < d THEN f
        ELSE IF twice > d THEN f + 1
        ELSE IF f % 2 = 0 THEN f ELSE f + 1

\* attack_time, release_time, hold_time: scale * raw
time_getter(p, dev) ==
    TimeProperties[p].scale * RWBits_get_value(TimeProperties[p].field, dev)

\* attack_time, release_time, hold_time setters: the value is written as it is
time_setter(p, dev, value) ==
    {Returned(d) : d \in RWBits_set(TimeProperties[p].field, dev, value)}

fixed_gain_getter(dev) == RWBits_get_value(_fixed_gain_control, dev)

\* a slip: the compression ratio is read before the range is checked
fixed_gain_setter_late_check(dev, value) ==
    LET afterRatio == RWBits_get(compression_ratio, dev)
    IN  IF -28 <= value /\ value <= 30
        THEN {Returned(d) : d \in RWBits_set(_fixed_gain_control, afterRatio, value)}
        ELSE {ValueError(afterRatio)}

\* a repair: the masked value written when the ratio is not 1:1, the value
\* itself otherwise, one write either way
fixed_gain_setter_one_write(dev, value) ==
    IF -28 <= value /\ value <= 30
    THEN LET afterRatio == RWBits_get(compression_ratio, dev)
         IN  {Returned(d) :
                 d \in RWBits_set(_fixed_gain_control, afterRatio,
                                  IF RWBits_get_value(compression_ratio, dev) # 0
                                  THEN value % 64 ELSE value)}
    ELSE {ValueError(dev)}

\* `self.compression_ratio is not 0` compares a small int with 0: it is != 0.
\* The masked value is written when the ratio is not 1:1, and then the value
\* itself is written in either case.
fixed_gain_setter(dev, value) ==
    IF -28 <= value /\ value <= 30
    THEN LET afterRatio == RWBits_get(compression_ratio, dev)
             ratio == value % 64      \* value & 0x3f
             afterMasked ==
                 IF RWBits_get_value(compression_ratio, dev) # 0
                 THEN RWBits_set(_fixed_gain_control, afterRatio, ratio)
                 ELSE {afterRatio}
         IN  {Returned(d) :
                 d \in UNION {RWBits_set(_fixed_gain_control, m, value) : m \in afterMasked}}
    ELSE {ValueError(dev)}

\* a slip: -6 + 0.5 * raw
output_limiter_level_getter_from_6(dev) ==
    (RWBits_get_value(_output_limiter_level, dev) - 12) * StepsPerHalfDb

\* -6.5 + 0.5 * raw, in steps of 0.5/StepsPerHalfDb dB
output_limiter_level_getter(dev) ==
    (RWBits_get_value(_output_limiter_level, dev) - 13) * StepsPerHalfDb

\* a variant: round((value + 6.5) / 0.5) in place of int(...)
output_limiter_level_setter_rounding(dev, value) ==
    IF -13 * StepsPerHalfDb <= value /\ value <= 18 * StepsPerHalfDb
    THEN LET output == PyRound(value + 13 * StepsPerHalfDb, StepsPerHalfDb)
         IN  {Returned(d) : d \in RWBits_set(_output_limiter_level, dev, output)}
    ELSE {ValueError(dev)}

\* value is q steps of 0.5/StepsPerHalfDb dB:
\* -6.5 <= value <= 9 and int((value + 6.5) / 0.5)
output_limiter_level_setter(dev, value) ==
    IF -13 * StepsPerHalfDb <= value /\ value <= 18 * StepsPerHalfDb
    THEN LET output == PyInt(value + 13 * StepsPerHalfDb, StepsPerHalfDb)
         IN  {Returned(d) : d \in RWBits_set(_output_limiter_level, dev, output)}
    ELSE {ValueError(dev)}

max_gain_getter(dev) == RWBits_get_value(_max_gain, dev) + 18

\* a slip: the value written without the offset of 18 taken off
max_gain_setter_no_offset(dev, value) ==
    IF 18 <= value /\ value <= 30
    THEN {Returned(d) : d \in RWBits_set(_max_gain, dev, value)}
    ELSE {ValueError(dev)}

max_gain_setter(dev, value) ==
    IF 18 <= value /\ value <= 30
    THEN LET max == value - 18
         IN  {Returned(d) : d \in RWBits_set(_max_gain, dev, max)}
    ELSE {ValueError(dev)}

(* -------- the values a caller passes -------- *)

GainValues == (-28 - Margin) .. (30 + Margin)
LimiterValues == (-13 * StepsPerHalfDb - Margin) .. (18 * StepsPerHalfDb + Margin)
MaxGainValues == (18 - Margin) .. (30 + Margin)
\* the codes of a two-bit property (COMPRESSION_*, NOISEGATE_*)
EnumValues == 0 .. 3
\* raw 6-bit codes passed to the time setters
TimeValues == {0, 1, 10, 21, 42, 63}

(* -------- the state machine -------- *)

NoCall == [op |-> "none", property |-> "none", value |-> 0, raised |-> FALSE,
           result |-> 0, bus |-> << >>, before |-> [r \in Registers |-> 0]]

\* The register contents a call can find.  Register 0x07, which the fixed_gain
\* setter reads besides the register it writes, is varied apart from the
\* others: either it holds any byte and the others a fill byte, or the others
\* all hold any byte and it holds a fill byte.
FillBytes == {0, 85, 170, 255}
PriorContents ==
    {[r \in Registers |-> IF (r = 7) = seven THEN b ELSE fill] :
        seven \in BOOLEAN, b \in Byte, fill \in FillBytes}

Init ==
    /\ regs \in PriorContents
    /\ last = NoCall
    /\ calls = 0

\* a getter returned `result` having left the device as `dev`
Got(p, result, dev) ==
    /\ calls < MaxCalls
    /\ calls' = calls + 1
    /\ regs' = dev.regs
    /\ last' = [op |-> "get", property |-> p, value |-> 0, raised |-> FALSE,
                result |-> result, bus |-> dev.bus, before |-> regs]

\* a setter was called with `value` and handed back one of `outs`
WasSet(p, value, outs) ==
    /\ calls < MaxCalls
    /\ calls' = calls + 1
    /\ \E out \in outs :
        /\ regs' = out.dev.regs
        /\ last' = [op |-> "set", property |-> p, value |-> value,
                    raised |-> out.raised, result |-> 0, bus |-> out.dev.bus,
                    before |-> regs]

GetBit ==
    \E p \in DOMAIN BitProperties :
        Got(p, RWBit_get_value(BitProperties[p], Device(regs)),
            RWBits_get(BitProperties[p], Device(regs)))

SetBit ==
    \E p \in DOMAIN BitProperties, value \in BOOLEAN :
        WasSet(p, value, {Returned(RWBit_set(BitProperties[p], Device(regs), value))})

GetEnum ==
    \E p \in DOMAIN EnumProperties :
        Got(p, RWBits_get_value(EnumProperties[p], Device(regs)),
            RWBits_get(EnumProperties[p], Device(regs)))

SetEnum ==
    \E p \in DOMAIN EnumProperties, value \in EnumValues :
        WasSet(p, value,
               {Returned(d) : d \in RWBits_set(EnumProperties[p], Device(regs), value)})

GetTime ==
    \E p \in DOMAIN TimeProperties :
        Got(p, time_getter(p, Device(regs)),
            RWBits_get(TimeProperties[p].field, Device(regs)))

SetTime ==
    \E p \in DOMAIN TimeProperties, value \in TimeValues :
        WasSet(p, value, time_setter(p, Device(regs), value))

GetFixedGain ==
    Got("fixed_gain", fixed_gain_getter(Device(regs)),
        RWBits_get(_fixed_gain_control, Device(regs)))

SetFixedGain ==
    \E value \in GainValues :
        WasSet("fixed_gain", value, fixed_gain_setter(Device(regs), value))

GetOutputLimiterLevel ==
    Got("output_limiter_level", output_limiter_level_getter(Device(regs)),
        RWBits_get(_output_limiter_level, Device(regs)))

SetOutputLimiterLevel ==
    \E value \in LimiterValues :
        WasSet("output_limiter_level", value,
               output_limiter_level_setter(Device(regs), value))

GetMaxGain ==
    Got("max_gain", max_gain_getter(Device(regs)), RWBits_get(_max_gain, Device(regs)))

SetMaxGain ==
    \E value \in MaxGainValues :
        WasSet("max_gain", value, max_gain_setter(Device(regs), value))

Next ==
    \/ GetBit \/ SetBit \/ GetEnum \/ SetEnum \/ GetTime \/ SetTime
    \/ GetFixedGain \/ SetFixedGain
    \/ GetOutputLimiterLevel \/ SetOutputLimiterLevel
    \/ GetMaxGain \/ SetMaxGain

Spec == Init /\ [][Next]_vars

TypeOK ==
    /\ regs \in [Registers -> Byte]
    /\ calls \in 0 .. MaxCalls

(* -------- what the properties declare and what a call did -------- *)

\* the bit-field each property name stands for
DeclaredField(p) ==
    IF p \in DOMAIN BitProperties THEN BitProperties[p]
    ELSE IF p \in DOMAIN EnumProperties THEN EnumProperties[p]
    ELSE IF p \in DOMAIN TimeProperties THEN TimeProperties[p].field
    ELSE IF p = "fixed_gain" THEN _fixed_gain_control
    ELSE IF p = "output_limiter_level" THEN _output_limiter_level
    ELSE _max_gain

\* the last call was p's setter / getter
SetOf(p) == last.op = "set" /\ last.property = p
GetOf(p) == last.op = "get" /\ last.property = p

\* the device as the last call found it and as it left it
Before == Device(last.before)
After == Device(regs)

\* the bits of register r that property p does not declare
OutsideMask(p, r) ==
    IF r = DeclaredField(p).register_address THEN Not8(DeclaredField(p).bit_mask)
    ELSE 255

\* the positions at which two bytes differ
DifferingBits(x, y) == {i \in 0 .. 7 : (x \div Pow2(i)) % 2 # (y \div Pow2(i)) % 2}

\* the documented ranges, in the units of the model
InGainRange(v) == -28 <= v /\ v <= 30
InLimiterRange(q) == -13 * StepsPerHalfDb <= q /\ q <= 18 * StepsPerHalfDb
InMaxGainRange(v) == 18 <= v /\ v <= 30

(* -------- the claims -------- *)

\* C1: a fixed_gain, output_limiter_level or max_gain setter called with a
\* value outside its documented range raises ValueError, issues no bus
\* transaction and leaves every register as it was.
C1_OutOfRangeRaisesBeforeBus ==
    (\/ SetOf("fixed_gain") /\ ~InGainRange(last.value)
     \/ SetOf("output_limiter_level") /\ ~InLimiterRange(last.value)
     \/ SetOf("max_gain") /\ ~InMaxGainRange(last.value))
    => /\ last.raised
       /\ last.bus = << >>
       /\ regs = last.before

C1_Witness ==
    /\ SetOf("output_limiter_level")
    /\ last.value = 18 * StepsPerHalfDb + 1
    /\ last.raised
    /\ last.before[5] = 255

\* C2: a setter that does not raise changes only the bits of its property's
\* declared field: every other bit of that register, and every other
\* register, is as before the call.
C2_SetChangesOnlyItsField ==
    (last.op = "set" /\ ~last.raised)
    => \A r \in Registers :
           BitAnd(regs[r], OutsideMask(last.property, r))
               = BitAnd(last.before[r], OutsideMask(last.property, r))

\* C3: with compression_ratio at a code other than 0, fixed_gain set to v in
\* -28 .. 30 and then read gives v.
C3_FixedGainRoundTrip ==
    (/\ SetOf("fixed_gain")
     /\ InGainRange(last.value)
     /\ RWBits_get_value(compression_ratio, Before) # 0)
    => /\ ~last.raised
       /\ fixed_gain_getter(After) = last.value

\* C4: max_gain set to v in 18 .. 30 writes v - 18 into bits 4-7 of register
\* 0x07, keeps bits 0-3, and max_gain then reads v; register 0x07 holding
\* 0b00000010 and v = 24 give a write of 0b01100010.
C4_MaxGainRoundTrip ==
    (SetOf("max_gain") /\ InMaxGainRange(last.value))
    => /\ ~last.raised
       /\ last.bus = << <<"read", 7, last.before[7]>>, <<"write", 7, regs[7]>> >>
       /\ regs[7] \div 16 = last.value - 18
       /\ regs[7] % 16 = last.before[7] % 16
       /\ max_gain_getter(After) = last.value
       /\ (last.before[7] = 2 /\ last.value = 24 => regs[7] = 98)

C4_Witness ==
    /\ SetOf("max_gain")
    /\ last.value = 24
    /\ last.before[7] = 2
    /\ last.bus = << <<"read", 7, 2>>, <<"write", 7, 98>> >>

\* C5: output_limiter_level set to a multiple of 0.5 dB in -6.5 .. 9 and then
\* read gives that value, whatever the registers held.
C5_LimiterRoundTrip ==
    (/\ SetOf("output_limiter_level")
     /\ InLimiterRange(last.value)
     /\ last.value % StepsPerHalfDb = 0)
    => /\ ~last.raised
       /\ output_limiter_level_getter(After) = last.value

C5_Witness ==
    /\ SetOf("output_limiter_level")
    /\ last.value = -3 * StepsPerHalfDb
    /\ last.before[5] = 255
    /\ ~last.raised
    /\ output_limiter_level_getter(After) = -3 * StepsPerHalfDb

\* the single-bit properties the claim places in register 0x01
Register1Bits ==
    {"speaker_enable_r", "speaker_enable_l", "amplifier_shutdown", "reset_fault_r",
     "reset_Fault_l", "reset_thermal", "noisegate_enable"}

\* C6: setting a single-bit property of register 0x01 reads that register and
\* writes back a byte that differs from the one read in no bit but the
\* property's own.
C6_SingleBitWriteKeepsOtherBits ==
    (last.op = "set" /\ last.property \in Register1Bits)
    => /\ ~last.raised
       /\ Len(last.bus) = 2
       /\ last.bus[1] = <<"read", 1, last.before[1]>>
       /\ last.bus[2] = <<"write", 1, regs[1]>>
       /\ DifferingBits(last.before[1], regs[1])
              \subseteq {BitProperties[last.property].lowest_bit}
       /\ RWBit_get_value(BitProperties[last.property], After) = last.value

C6_Witness ==
    /\ SetOf("speaker_enable_l")
    /\ last.value = FALSE
    /\ last.before[1] = 255
    /\ regs[1] = 191

\* the transactions of a field read and of a field read-modify-write
OneRead(bus, a) == Len(bus) = 1 /\ bus[1][1] = "read" /\ bus[1][2] = a
ReadThenWrite(bus, a) ==
    /\ Len(bus) = 2
    /\ bus[1][1] = "read" /\ bus[1][2] = a
    /\ bus[2][1] = "write" /\ bus[2][2] = a

\* C7: a getter issues exactly one bus transaction, a read; a setter that does
\* not raise issues exactly two, a read then a write; fixed_gain included.
C7_AtMostTwoTransactions ==
    /\ last.op = "get"
       => OneRead(last.bus, DeclaredField(last.property).register_address)
    /\ (last.op = "set" /\ ~last.raised)
       => ReadThenWrite(last.bus, DeclaredField(last.property).register_address)

\* C7 as amended: as above for every getter and every setter but fixed_gain's;
\* the fixed_gain setter first reads register 0x07 for the compression ratio,
\* then reads and writes register 0x05 once when the ratio code is 0 and twice
\* when it is not: three or five transactions.
C7_TransactionsPerAccess ==
    /\ last.op = "get"
       => OneRead(last.bus, DeclaredField(last.property).register_address)
    /\ (last.op = "set" /\ ~last.raised /\ last.property # "fixed_gain")
       => ReadThenWrite(last.bus, DeclaredField(last.property).register_address)
    /\ (SetOf("fixed_gain") /\ ~last.raised)
       => /\ Len(last.bus) = (IF RWBits_get_value(compression_ratio, Before) = 0
                              THEN 3 ELSE 5)
          /\ last.bus[1] = <<"read", 7, last.before[7]>>
          /\ ReadThenWrite(SubSeq(last.bus, 2, 3), 5)
          /\ Len(last.bus) = 5 => ReadThenWrite(SubSeq(last.bus, 4, 5), 5)

C7_Witness ==
    /\ SetOf("fixed_gain")
    /\ ~last.raised
    /\ RWBits_get_value(compression_ratio, Before) = 2
    /\ Len(last.bus) = 5

\* the code a successful output_limiter_level set wrote, as the write shows it
WrittenLimiterCode == FieldOf(_output_limiter_level, last.bus[2][3])

\* C8: an accepted output_limiter_level v is written as the code
\* round((v + 6.5) / 0.5), the nearest step, and the code is in 0 .. 31.
C8_LimiterCodeIsRounded ==
    (SetOf("output_limiter_level") /\ InLimiterRange(last.value))
    => /\ ~last.raised
       /\ ReadThenWrite(last.bus, 5)
       /\ WrittenLimiterCode
              = PyRound(last.value + 13 * StepsPerHalfDb, StepsPerHalfDb)
       /\ WrittenLimiterCode \in 0 .. 31

\* C8 as amended: an accepted v is written as the code int((v + 6.5) / 0.5),
\* the quotient truncated to the step at or below v, and the code is in
\* 0 .. 31.
C8_LimiterCodeIsTruncated ==
    (SetOf("output_limiter_level") /\ InLimiterRange(last.value))
    => /\ ~last.raised
       /\ ReadThenWrite(last.bus, 5)
       /\ WrittenLimiterCode * StepsPerHalfDb <= last.value + 13 * StepsPerHalfDb
       /\ last.value + 13 * StepsPerHalfDb < (WrittenLimiterCode + 1) * StepsPerHalfDb
       /\ WrittenLimiterCode \in 0 .. 31
       /\ FieldOf(_output_limiter_level, regs[5]) = WrittenLimiterCode

C8_Witness ==
    /\ SetOf("output_limiter_level")
    /\ ~last.raised
    /\ last.value = 18 * StepsPerHalfDb - 1
    /\ WrittenLimiterCode = 30

\* C9: a successful output_limiter_level set leaves what fixed_gain reads
\* unchanged, and a successful fixed_gain set leaves what output_limiter_level
\* reads unchanged.
C9_GainAndLimiterIndependent ==
    /\ (SetOf("output_limiter_level") /\ ~last.raised)
       => fixed_gain_getter(After) = fixed_gain_getter(Before)
    /\ (SetOf("fixed_gain") /\ ~last.raised)
       => output_limiter_level_getter(After) = output_limiter_level_getter(Before)

\* C10: from registers whose max_gain field holds a code of at most 12, every
\* call (any getter, any setter, raising or not) leaves the field at a code of
\* at most 12, so that max_gain reads an integer in 18 .. 30; and only a
\* max_gain set that does not raise changes what max_gain reads.
C10_MaxGainStaysInRange ==
    (last.op # "none" /\ RWBits_get_value(_max_gain, Before) <= 12)
    => /\ RWBits_get_value(_max_gain, After) <= 12
       /\ max_gain_getter(After) \in 18 .. 30
       /\ GetOf("max_gain") => last.result \in 18 .. 30
       /\ max_gain_getter(After) # max_gain_getter(Before)
              => SetOf("max_gain") /\ ~last.raised

C10_Witness ==
    /\ SetOf("compression_ratio")
    /\ last.value = 3
    /\ last.before[7] = 192
    /\ regs[7] = 195
    /\ max_gain_getter(After) = 30

====
